---- MODULE Spec2Model ----
(***************************************************************************)
(* seg2mesh: main(config) of src/main.py as a state machine.               *)
(*                                                                         *)
(* One run of main() is one behaviour.  The input directory (the .nii      *)
(* files in glob order) and the configuration are fixed by Init; every     *)
(* action is one statement group or one loop iteration of main().          *)
(*                                                                         *)
(* Lengths (spacings, voxel_resample_length, remesh_edge_length) are       *)
(* integers in an arbitrary unit; only their ratios enter the code, and    *)
(* they are computed exactly (the code uses IEEE doubles).                 *)
(*                                                                         *)
(* Library behaviour the code relies on and that the model writes down:    *)
(*  - SimpleITK refuses an image spacing that is not positive and a size   *)
(*    that is negative (ReadImage, Resample raise);                        *)
(*  - Image += Image adds in place, modulo 2^8 for sitkUInt8;              *)
(*  - Image * int multiplies through a double and casts back to the pixel  *)
(*    type: out of range the cast is undefined in C++, so the model lets   *)
(*    it wrap or saturate;                                                 *)
(*  - pyacvd on a mesh without cells, or asked for 0 clusters, either      *)
(*    raises or returns an empty mesh.                                     *)
(***************************************************************************)
EXTENDS Integers, Sequences, FiniteSets, TLC

\* ------------------------------------------------------------------ bounds

\* Largest number of input files of the small input families.
MaxStructures == 3

\* Voxels along x of the default input volume (its size is GridLen x 1 x 1).
GridLen == 2

\* sitk.sitkUInt8: the pixel type every volume is read as.
PixelBits == 8

PixelMod == 2 ^ PixelBits

MaxPixel == PixelMod - 1

\* Structure counts at which 8-bit labels stop fitting: the first count whose
\* two highest labels sum past MaxPixel, and the first whose highest label is
\* itself past MaxPixel.
WideCounts == {2 ^ (PixelBits - 1) + 1, 2 ^ PixelBits}

\* How many of the last structures may be non-empty in the wide family.
WideActive == 2

\* config.voxel_resample_length values tried (the non-positive ones included).
VoxelLengths == {-4, -1, 0, 1, 2}

\* config.remesh_edge_length values tried.
EdgeLengths == {1, 2}

\* config.output_format values.
OutputFormats == {"vtp", "stl"}

\* Triangle counts a non-empty surface may have (closed surfaces: even).
TriangleCounts == {12, 20}

\* ----------------------------------------------------------------- helpers

Abs(a) == IF a < 0 THEN -a ELSE a

\* Python int(a / b): truncation toward zero, b # 0.
TruncDiv(a, b) ==
    LET q == Abs(a) \div Abs(b)
    IN  IF (a < 0) = (b < 0) THEN q ELSE -q

\* np.prod(img.GetSize())
Prod(t) == t[1] * t[2] * t[3]

\* The voxel indices of a grid of the given size.
Idx(size) == (0 .. size[1] - 1) \X (0 .. size[2] - 1) \X (0 .. size[3] - 1)

Max(S) == CHOOSE m \in S : \A n \in S : n <= m

\* An image object: VolumeGrid geometry plus the pixel array.
NoImage ==
    [size |-> <<0, 0, 0>>, spacing |-> <<0, 0, 0>>, origin |-> <<0, 0, 0>>,
     direction |-> <<0, 0, 0>>, data |-> <<>>]

\* --------------------------------------------------------------- the input

\* A file on disk: header geometry, and its content as the set of voxels of
\* the common grid that are foreground once the file has been resampled
\* (nearest neighbour) and closed.
DefaultGeom ==
    [size |-> <<GridLen, 1, 1>>, spacing |-> <<1, 1, 1>>,
     origin |-> <<0, 0, 0>>, direction |-> <<1, 1, 1>>]

OtherGeom ==
    [size |-> <<1, 3, 1>>, spacing |-> <<2, 1, 1>>,
     origin |-> <<5, 0, -3>>, direction |-> <<1, -1, 1>>]

ZeroSpacingGeom ==
    [size |-> <<1, 1, 1>>, spacing |-> <<1, 0, 1>>,
     origin |-> <<0, 0, 0>>, direction |-> <<1, 1, 1>>]

NegSpacingGeom ==
    [size |-> <<1, 1, 1>>, spacing |-> <<-1, 1, 1>>,
     origin |-> <<0, 0, 0>>, direction |-> <<1, 1, 1>>]

Geoms == {DefaultGeom, OtherGeom, ZeroSpacingGeom, NegSpacingGeom}

PositiveSpacing(g) == \A k \in 1 .. 3 : g.spacing[k] > 0

\* target_dim as line 43 computes it from the reference image:
\* int(s / v * d + 0.5) per axis.
TargetDimOf(g, v) ==
    [k \in 1 .. 3 |-> TruncDiv(2 * g.spacing[k] * g.size[k] + v, 2 * v)]

\* The file the running comparison of lines 34-37 ends on: the first one of
\* the largest voxel count.
RefIndex(gs) ==
    CHOOSE k \in 1 .. Len(gs) :
        \A j \in 1 .. Len(gs) :
            /\ Prod(gs[j].size) <= Prod(gs[k].size)
            /\ (j < k => Prod(gs[j].size) < Prod(gs[k].size))

\* The common grid's voxels for a list of geometries, empty when no grid is
\* ever built.
GridOf(gs, v) ==
    IF Len(gs) = 0 \/ v <= 0 \/ \E j \in 1 .. Len(gs) : ~PositiveSpacing(gs[j])
    THEN {}
    ELSE Idx(TargetDimOf(gs[RefIndex(gs)], v))

MakeFile(g, fp) ==
    [size |-> g.size, spacing |-> g.spacing, origin |-> g.origin,
     direction |-> g.direction, footprint |-> fp]

MakeConfig(v, e, fmt) ==
    [voxel_resample_length |-> v, remesh_edge_length |-> e, output_format |-> fmt]

VARIABLES
    files,              \* input_dir: the .nii files in glob order
    config,             \* the Config of the run
    pc,                 \* position of main()
    err,                \* the exception that ended the run, or "none"
    original_volumes,   \* line 29
    volume_names,       \* line 30
    largest_image,      \* line 31: index into original_volumes, 0 = None
    target_dim,         \* line 43
    images,             \* the image objects created so far, by identity
    volumes,            \* line 44: identities of the label volumes
    composite,          \* lines 59-63: identity the name is bound to, 0 = unbound
    i,                  \* the loop variable of the running loop
    vtkimage,           \* lines 65-71
    dir_exists,         \* output_path exists
    written,            \* files written under output_path
    poly,               \* line 97: cell count of the cleaned mesh
    num_clusters        \* line 100

vars ==
    <<files, config, pc, err, original_volumes, volume_names, largest_image,
      target_dim, images, volumes, composite, i, vtkimage, dir_exists,
      written, poly, num_clusters>>

N == Len(files)

Start(fs, cfg) ==
    /\ files = fs
    /\ config = cfg
    /\ pc = IF Len(fs) = 0 THEN "grid" ELSE "read"
    /\ err = "none"
    /\ original_volumes = <<>>
    /\ volume_names = <<>>
    /\ largest_image = 0
    /\ target_dim = <<0, 0, 0>>
    /\ images = <<>>
    /\ volumes = <<>>
    /\ composite = 0
    /\ i = 0
    /\ vtkimage = NoImage
    /\ dir_exists = FALSE
    /\ written = {}
    /\ poly = 0
    /\ num_clusters = 0

\* Same-grid inputs with every pattern of overlap.
InitOverlap ==
    \E n \in 0 .. MaxStructures :
        LET gs == [k \in 1 .. n |-> DefaultGeom]
        IN  \E fps \in [1 .. n -> SUBSET GridOf(gs, 1)] :
                Start([k \in 1 .. n |-> MakeFile(gs[k], fps[k])],
                      MakeConfig(1, 1, "vtp"))

\* Inputs of different geometry, each empty or covering the whole grid, under
\* every configuration.
InitGeometry ==
    \E n \in 1 .. MaxStructures :
        \E gs \in [1 .. n -> Geoms], v \in VoxelLengths, e \in EdgeLengths,
           fmt \in OutputFormats :
            \E fps \in [1 .. n -> {{}, GridOf(gs, v)}] :
                Start([k \in 1 .. n |-> MakeFile(gs[k], fps[k])],
                      MakeConfig(v, e, fmt))

\* Many same-grid inputs, all empty except the last WideActive ones.
InitWide ==
    \E n \in WideCounts :
        LET gs == [k \in 1 .. n |-> DefaultGeom]
        IN  \E tail \in [1 .. WideActive -> SUBSET GridOf(gs, 1)] :
                Start([k \in 1 .. n |->
                         MakeFile(gs[k], IF k <= n - WideActive THEN {}
                                         ELSE tail[k - (n - WideActive)])],
                      MakeConfig(1, 1, "vtp"))

Init == InitOverlap \/ InitGeometry

\* ------------------------------------------------------------- lines 32-39

\* sitk.ReadImage of the next file; the running choice of the largest image.
ReadImage ==
    /\ pc = "read"
    /\ LET img == files[Len(original_volumes) + 1]
           k == Len(original_volumes) + 1
       IN  /\ PositiveSpacing(img)
           /\ largest_image' =
                IF largest_image = 0 THEN k
                ELSE IF Prod(original_volumes[largest_image].size) < Prod(img.size)
                     THEN k
                     ELSE largest_image
           /\ original_volumes' = Append(original_volumes, img)
           /\ volume_names' = Append(volume_names, k)
           /\ pc' = IF k = N THEN "grid" ELSE "read"
    /\ UNCHANGED <<files, config, err, target_dim, images, volumes, composite,
                   i, vtkimage, dir_exists, written, poly, num_clusters>>

\* ReadImage on a header whose spacing is not positive: ITK refuses to set it.
ReadImageFails ==
    /\ pc = "read"
    /\ ~PositiveSpacing(files[Len(original_volumes) + 1])
    /\ pc' = "error"
    /\ err' = "RuntimeError@read"
    /\ UNCHANGED <<files, config, original_volumes, volume_names, largest_image,
                   target_dim, images, volumes, composite, i, vtkimage,
                   dir_exists, written, poly, num_clusters>>

\* ------------------------------------------------------------- lines 40-43

\* The reference frame and the common grid's dimensions.
ComputeGrid ==
    /\ pc = "grid"
    /\ largest_image # 0
    /\ config.voxel_resample_length # 0
    /\ target_dim' = TargetDimOf(original_volumes[largest_image],
                                 config.voxel_resample_length)
    /\ i' = 0
    /\ pc' = "resample"
    /\ UNCHANGED <<files, config, err, original_volumes, volume_names,
                   largest_image, images, volumes, composite, vtkimage,
                   dir_exists, written, poly, num_clusters>>

\* No file was found (None.GetOrigin()), or s / 0.0 at line 42.
ComputeGridFails ==
    /\ pc = "grid"
    /\ largest_image = 0 \/ config.voxel_resample_length = 0
    /\ pc' = "error"
    /\ err' = IF largest_image = 0 THEN "AttributeError@grid"
              ELSE "ZeroDivisionError@grid"
    /\ UNCHANGED <<files, config, original_volumes, volume_names, largest_image,
                   target_dim, images, volumes, composite, i, vtkimage,
                   dir_exists, written, poly, num_clusters>>

\* ------------------------------------------------------------- lines 45-57

\* What a double-to-uint8 cast of x may give: x itself in range; out of range
\* (undefined in C++) the value modulo 2^8 or the saturated value.
CastOutcomes(x) ==
    IF x \in 0 .. MaxPixel THEN {x} ELSE {x % PixelMod, MaxPixel}

\* A Resample that keeps each input's own origin (outputOrigin left out).
ResampleGeometryOwnOrigin(img, ref, dim, v) ==
    [size |-> dim, spacing |-> <<v, v, v>>, origin |-> img.origin,
     direction |-> ref.direction]

\* The geometry sitk.Resample gives its output (lines 48, 51-53).
ResampleGeometry(img, ref, dim, v) ==
    [size |-> dim, spacing |-> <<v, v, v>>, origin |-> ref.origin,
     direction |-> ref.direction]

\* A Resample that checks the size only and takes any output spacing.
ResampleRejectsSizeOnly(dim, v) == \E k \in 1 .. 3 : dim[k] < 0

\* Whether sitk.Resample refuses the grid: a negative size does not convert
\* to an unsigned size, a negative output spacing is rejected.
ResampleRejects(dim, v) == v < 0 \/ \E k \in 1 .. 3 : dim[k] < 0

\* The label volume of line 55: the closed binary mask times (i + 1), the
\* product being val where the mask is 1.
LabelVolume(img, geom, val) ==
    [size |-> geom.size, spacing |-> geom.spacing, origin |-> geom.origin,
     direction |-> geom.direction,
     data |-> [x \in Idx(geom.size) |-> IF x \in img.footprint THEN val ELSE 0]]

Resample ==
    /\ pc = "resample"
    /\ ~ResampleRejects(target_dim, config.voxel_resample_length)
    /\ LET img == original_volumes[i + 1]
           geom == ResampleGeometry(img, original_volumes[largest_image],
                                    target_dim, config.voxel_resample_length)
       IN  \E val \in CastOutcomes(i + 1) :
               /\ images' = Append(images, LabelVolume(img, geom, val))
               /\ volumes' = Append(volumes, Len(images) + 1)
    /\ i' = i + 1
    /\ pc' = IF i + 1 = Len(volume_names) THEN "composite_init" ELSE "resample"
    /\ UNCHANGED <<files, config, err, original_volumes, volume_names,
                   largest_image, target_dim, composite, vtkimage, dir_exists,
                   written, poly, num_clusters>>

ResampleFails ==
    /\ pc = "resample"
    /\ ResampleRejects(target_dim, config.voxel_resample_length)
    /\ pc' = "error"
    /\ err' = "RuntimeError@resample"
    /\ UNCHANGED <<files, config, original_volumes, volume_names, largest_image,
                   target_dim, images, volumes, composite, i, vtkimage,
                   dir_exists, written, poly, num_clusters>>

\* ------------------------------------------------------------- lines 59-62

\* composite = volumes[0]: the name is bound to the first label volume
\* itself, not to a copy of it.
SeedComposite(vols) == vols[1]

\* A loop over volumes[1:-1]: the last volume is never merged.
MoreToMergeButLast(k, vols) == k + 3 <= Len(vols)

\* Whether the loop of line 60 has another volume after k iterations.
MoreToMerge(k, vols) == k + 2 <= Len(vols)

CompositeInit ==
    /\ pc = "composite_init"
    /\ composite' = SeedComposite(volumes)
    /\ i' = 0
    /\ pc' = IF MoreToMerge(0, volumes) THEN "composite" ELSE "pad"
    /\ UNCHANGED <<files, config, err, original_volumes, volume_names,
                   largest_image, target_dim, images, volumes, vtkimage,
                   dir_exists, written, poly, num_clusters>>

\* composite += volume (line 61): voxelwise uint8 addition.
AddPixels(a, b) == [x \in DOMAIN a |-> (a[x] + b[x]) % PixelMod]

\* What the threshold of composite > label compares against: the label, or
\* its cast to the pixel type when it does not fit.
ThresholdOutcomes(label) == {label} \union CastOutcomes(label)

\* Line 62 left out: the sum is never clamped.
ClampPixelsSkipped(a, th, val) == a

\* composite[composite > th] = val (line 62).
ClampPixels(a, th, val) == [x \in DOMAIN a |-> IF a[x] > th THEN val ELSE a[x]]

\* One iteration of lines 60-62 on the object composite is bound to.
CompositeStep ==
    /\ pc = "composite"
    /\ LET volume == images[volumes[i + 2]]
           sum == AddPixels(images[composite].data, volume.data)
       IN  \E th \in ThresholdOutcomes(i + 2), val \in CastOutcomes(i + 2) :
               images' = [images EXCEPT ![composite].data = ClampPixels(sum, th, val)]
    /\ i' = i + 1
    /\ pc' = IF MoreToMerge(i + 1, volumes) THEN "composite" ELSE "pad"
    /\ UNCHANGED <<files, config, err, original_volumes, volume_names,
                   largest_image, target_dim, volumes, composite, vtkimage,
                   dir_exists, written, poly, num_clusters>>

\* ---------------------------------------------------------------- line 63

\* sitk.ConstantPad by one voxel of 0 on every face: a new image.
ConstantPad(img) ==
    LET size == [k \in 1 .. 3 |-> img.size[k] + 2]
    IN  [size |-> size,
         spacing |-> img.spacing,
         origin |-> [k \in 1 .. 3 |-> img.origin[k] - img.direction[k] * img.spacing[k]],
         direction |-> img.direction,
         data |-> [x \in Idx(size) |->
                     LET y == <<x[1] - 1, x[2] - 1, x[3] - 1>>
                     IN  IF y \in DOMAIN img.data THEN img.data[y] ELSE 0]]

Pad ==
    /\ pc = "pad"
    /\ images' = Append(images, ConstantPad(images[composite]))
    /\ composite' = Len(images) + 1
    /\ pc' = "tovtk"
    /\ UNCHANGED <<files, config, err, original_volumes, volume_names,
                   largest_image, target_dim, volumes, i, vtkimage, dir_exists,
                   written, poly, num_clusters>>

\* ------------------------------------------------------------- lines 65-71

\* The vtkImageData: a deep copy of the pixels, with the composite's size,
\* spacing and origin (vtkImageData is given no direction).
ToVtk ==
    /\ pc = "tovtk"
    /\ vtkimage' = [images[composite] EXCEPT !.direction = <<1, 1, 1>>]
    /\ pc' = "mkdir"
    /\ UNCHANGED <<files, config, err, original_volumes, volume_names,
                   largest_image, target_dim, images, volumes, composite, i,
                   dir_exists, written, poly, num_clusters>>

\* ------------------------------------------------------------- lines 73-78

Mkdir ==
    /\ pc = "mkdir"
    /\ dir_exists' = TRUE
    /\ pc' = "config"
    /\ UNCHANGED <<files, config, err, original_volumes, volume_names,
                   largest_image, target_dim, images, volumes, composite, i,
                   vtkimage, written, poly, num_clusters>>

ConfigFile == [name |-> 0, ext |-> "json"]

MeshFile(name, fmt) == [name |-> name, ext |-> fmt]

WriteConfig ==
    /\ pc = "config"
    /\ written' = written \union {ConfigFile}
    /\ i' = 0
    /\ pc' = "extract"
    /\ UNCHANGED <<files, config, err, original_volumes, volume_names,
                   largest_image, target_dim, images, volumes, composite,
                   vtkimage, dir_exists, poly, num_clusters>>

\* ------------------------------------------------------------ lines 80-110

\* Whether a label has a voxel in the extracted image.
LabelPresent(img, label) == \E x \in DOMAIN img.data : img.data[x] = label

\* vtkSurfaceNets3D for label i + 1, cleaned: the cell count of the mesh.
Extract ==
    /\ pc = "extract"
    /\ poly' \in IF LabelPresent(vtkimage, i + 1) THEN TriangleCounts ELSE {0}
    /\ pc' = "remesh"
    /\ UNCHANGED <<files, config, err, original_volumes, volume_names,
                   largest_image, target_dim, images, volumes, composite, i,
                   vtkimage, dir_exists, written, num_clusters>>

\* round() in place of int() at line 100.
NumClustersRounded(cells, v, e) == (2 * cells * v * v + 2 * e * e) \div (4 * e * e)

\* Line 100: int(cells * (v / e) ** 2 / 2).
NumClusters(cells, v, e) == TruncDiv(cells * v * v, 2 * e * e)

\* pyacvd has nothing to cluster, or is asked for no cluster.
RemeshMayRaise(cells, nclus) == cells = 0 \/ nclus = 0

Remesh ==
    /\ pc = "remesh"
    /\ num_clusters' = NumClusters(poly, config.voxel_resample_length,
                                   config.remesh_edge_length)
    /\ pc' = "write"
    /\ UNCHANGED <<files, config, err, original_volumes, volume_names,
                   largest_image, target_dim, images, volumes, composite, i,
                   vtkimage, dir_exists, written, poly>>

\* The exception is not caught: it ends main().
RemeshFails ==
    /\ pc = "remesh"
    /\ RemeshMayRaise(poly, NumClusters(poly, config.voxel_resample_length,
                                        config.remesh_edge_length))
    /\ pc' = "error"
    /\ err' = "Exception@remesh"
    /\ UNCHANGED <<files, config, original_volumes, volume_names, largest_image,
                   target_dim, images, volumes, composite, i, vtkimage,
                   dir_exists, written, poly, num_clusters>>

\* Lines 104-110, and the loop's step to the next name.
WriteMesh ==
    /\ pc = "write"
    /\ written' = written \union {MeshFile(volume_names[i + 1], config.output_format)}
    /\ i' = i + 1
    /\ pc' = IF i + 1 = Len(volume_names) THEN "done" ELSE "extract"
    /\ UNCHANGED <<files, config, err, original_volumes, volume_names,
                   largest_image, target_dim, images, volumes, composite,
                   vtkimage, dir_exists, poly, num_clusters>>

Next ==
    \/ ReadImage
    \/ ReadImageFails
    \/ ComputeGrid
    \/ ComputeGridFails
    \/ Resample
    \/ ResampleFails
    \/ CompositeInit
    \/ CompositeStep
    \/ Pad
    \/ ToVtk
    \/ Mkdir
    \/ WriteConfig
    \/ Extract
    \/ Remesh
    \/ RemeshFails
    \/ WriteMesh

Spec == Init /\ [][Next]_vars

\* The same program on the small inputs and on the wide ones.
SpecWide == (Init \/ InitWide) /\ [][Next]_vars

\* ================================================================== claims

\* The structures (1-based) whose volume claims voxel x of the common grid.
Claimants(x) == {k \in 1 .. N : x \in files[k].footprint}

HighestClaimant(x) == Max(Claimants(x) \union {0})

\* Voxel x of the common grid, in the padded composite.
Shift(x) == <<x[1] + 1, x[2] + 1, x[3] + 1>>

\* The voxels of the common grid, once it has been computed.
Grid == Idx(target_dim)

\* The fold of lines 59-62 has ended and line 63 has not run yet.
FoldDone == pc = "pad"

\* Positions of the per-structure loop of lines 80-110.
ExtractionPcs == {"extract", "remesh", "write"}

\* Positions at which the vtk image of the padded composite exists.
VtkPcs == {"mkdir", "config", "done"} \union ExtractionPcs

\* C1: every voxel of the composite holds the label of the highest-index
\* structure claiming it, and 0 when none does: in the folded volume, and in
\* the padded copy the surfaces are extracted from.
C1_OverlapRule ==
    /\ FoldDone =>
         \A x \in Grid : images[composite].data[x] = HighestClaimant(x)
    /\ pc \in VtkPcs =>
         \A x \in Grid : vtkimage.data[Shift(x)] = HighestClaimant(x)

\* C2: when the run has ended, every structure whose label has a surface
\* (at least one voxel of the composite) has its mesh file, whichever
\* structure was empty.
C2_EmptyStructureTolerated ==
    pc \in {"done", "error"} =>
        \A k \in 1 .. Len(volume_names) :
            LabelPresent(vtkimage, k) =>
                MeshFile(volume_names[k], config.output_format) \in written

\* The composite of the written formula: the sum of all label volumes at a
\* voxel, then for j = 1 .. N-1 in order every value above j+1 set to j+1.
RECURSIVE ClampInOrder(_, _, _)
ClampInOrder(value, j, n) ==
    IF j > n - 1 THEN value
    ELSE ClampInOrder(IF value > j + 1 THEN j + 1 ELSE value, j + 1, n)

RECURSIVE SumOf(_)
SumOf(S) ==
    IF S = {} THEN 0
    ELSE LET k == CHOOSE k \in S : TRUE IN k + SumOf(S \ {k})

SumThenClamp(x) == ClampInOrder(SumOf(Claimants(x)), 1, N)

\* C3, as claimed: for every N the fold of lines 59-62 gives the composite
\* of the sum-then-clamp formula.
C3_FoldEqualsSumThenClamp ==
    FoldDone => \A x \in Grid : images[composite].data[x] = SumThenClamp(x)

\* C3, amended: the fold gives the composite of the sum-then-clamp formula
\* for up to two structures.
C3_FoldEqualsSumThenClampUpToTwo ==
    (FoldDone /\ N <= 2) =>
        \A x \in Grid : images[composite].data[x] = SumThenClamp(x)

\* Two structures overlap at a voxel and the fold has merged both.
C3_Witness ==
    /\ FoldDone
    /\ N = 2
    /\ \E x \in Grid : Claimants(x) = {1, 2} /\ images[composite].data[x] = 2

\* num / den rounded to the nearest integer, halves up (num >= 0, den > 0).
RoundNearest(num, den) == (2 * num + den) \div (2 * den)

\* The mesh of the current structure has been remeshed.
Remeshed == pc = "write" /\ poly > 0

\* C4, as claimed: the cluster count requested is T * (v / e)^2 / 2 rounded
\* to the nearest integer.
C4_ClusterCountRounded ==
    Remeshed =>
        num_clusters =
            RoundNearest(poly * config.voxel_resample_length ^ 2,
                         2 * config.remesh_edge_length ^ 2)

\* C4, amended: the cluster count requested is T * (v / e)^2 / 2 truncated
\* to an integer: the largest integer not above it.
C4_ClusterCountTruncated ==
    Remeshed =>
        LET num == poly * config.voxel_resample_length ^ 2
            den == 2 * config.remesh_edge_length ^ 2
        IN  /\ num_clusters * den <= num
            /\ num < (num_clusters + 1) * den

\* A mesh of 12 triangles at v / e = 1 / 2: 1.5 clusters, 1 requested.
C4_Witness ==
    /\ Remeshed
    /\ poly = 12
    /\ config.voxel_resample_length = 1
    /\ config.remesh_edge_length = 2
    /\ num_clusters = 1

\* Disjoint inputs: no voxel is claimed by two structures.
Disjoint ==
    \A j \in 1 .. N : \A k \in 1 .. N :
        j # k => files[j].footprint \intersect files[k].footprint = {}

\* C5: on disjoint inputs, in whatever order the files come, the voxels
\* holding a structure's label are exactly that structure's voxels, and the
\* other voxels hold 0.
C5_DisjointUnion ==
    (FoldDone /\ Disjoint) =>
        /\ \A k \in 1 .. N :
               {x \in Grid : images[composite].data[x] = k} = files[k].footprint
        /\ \A x \in Grid : Claimants(x) = {} => images[composite].data[x] = 0

\* The target spacing or a source spacing is not positive.
InvalidGeometry ==
    \/ config.voxel_resample_length <= 0
    \/ \E k \in 1 .. N : ~PositiveSpacing(files[k])

AllMergedAndPadded ==
    /\ Len(volumes) = N
    /\ vtkimage.size = [k \in 1 .. 3 |-> target_dim[k] + 2]
    /\ vtkimage.data = images[composite].data
    /\ \A k \in 1 .. N : \A x \in files[k].footprint : vtkimage.data[Shift(x)] # 0
    /\ \A y \in DOMAIN vtkimage.data :
           (\A x \in Grid : y # Shift(x)) => vtkimage.data[y] = 0

\* A step taken during the extraction loop leaves the composite and the
\* image extracted from as they are.
ExtractionReadsOnly ==
    pc \in ExtractionPcs =>
        /\ composite' = composite
        /\ images'[composite] = images[composite]
        /\ vtkimage' = vtkimage

\* C7: an extraction runs only once all N structures are merged and the
\* composite is padded, and from the first extraction on neither the
\* composite nor the image extracted from is written again.
C7_SerializationPoint ==
    [](pc \in ExtractionPcs => AllMergedAndPadded) /\ [][ExtractionReadsOnly]_vars

\* The third structure is being extracted, its voxels merged after the others.
C7_Witness ==
    /\ pc = "extract"
    /\ i = 2
    /\ N = 3
    /\ Claimants(<<0, 0, 0>>) = {3}

\* The label volume of structure k as line 55 produced it.
OriginalLabelData(k) == [x \in Grid |-> IF x \in files[k].footprint THEN k ELSE 0]

\* C8: once compositing is over, every label volume of the list volumes
\* holds the values it was given at line 55.
C8_InputsUnchanged ==
    pc \in {"pad", "tovtk"} \union VtkPcs =>
        \A k \in 1 .. Len(volumes) : images[volumes[k]].data = OriginalLabelData(k)

\* The grid the reference volume (the first one of the largest voxel count)
\* defines: int(size * spacing / v + 0.5) voxels of edge v per axis, at its
\* origin and direction.
ReferenceGrid ==
    LET ref == files[RefIndex(files)]
        v == config.voxel_resample_length
    IN  [size |-> [k \in 1 .. 3 |-> (2 * ref.size[k] * ref.spacing[k] + v) \div (2 * v)],
         spacing |-> <<v, v, v>>,
         origin |-> ref.origin,
         direction |-> ref.direction]

GeometryOf(img) ==
    [size |-> img.size, spacing |-> img.spacing, origin |-> img.origin,
     direction |-> img.direction]

\* C9: every volume that reaches compositing lies on the reference grid.
C9_CommonGrid ==
    pc \in {"composite_init", "composite", "pad"} =>
        /\ Len(volumes) = N
        /\ \A k \in 1 .. N :
               /\ GeometryOf(images[volumes[k]]) = ReferenceGrid
               /\ DOMAIN images[volumes[k]].data = Idx(ReferenceGrid.size)

\* Inputs of different size, spacing, origin and direction are composited,
\* the reference being the second file.
C9_Witness ==
    /\ pc = "composite"
    /\ GeometryOf(files[1]) # GeometryOf(files[2])
    /\ files[1].origin # files[2].origin
    /\ files[1].direction # files[2].direction
    /\ files[1].spacing # files[2].spacing
    /\ ReferenceGrid.origin = files[2].origin
    /\ ReferenceGrid.size # files[2].size

\* C10: neither the product mask * (i + 1) of line 55 nor a sum
\* composite + volume of line 61 goes past the largest 8-bit value.
C10_NoOverflow ==
    /\ (pc = "resample" /\ ~ResampleRejects(target_dim, config.voxel_resample_length)
        /\ original_volumes[i + 1].footprint # {}) => i + 1 <= MaxPixel
    /\ pc = "composite" =>
         \A x \in Grid :
             images[composite].data[x] + images[volumes[i + 2]].data[x] <= MaxPixel

====
